---- MODULE Spec2Model ----
(***************************************************************************)
(* Model of examples/bevy_image.rs: the NDI discovery-then-connect setup   *)
(* (setup_ndi_receiver), the Startup system (setup_graphics) and the       *)
(* per-frame Update system (receive_ndi_frames) with its drain loop.       *)
(* The build script build.rs (choose_source_dir, main) is modelled as a    *)
(* second specification, BuildSpec.                                        *)
(*                                                                         *)
(* A video frame is identified by its arrival number at the receiver       *)
(* (1, 2, 3, ...).  releases[f] counts the buffer releases issued for      *)
(* frame f (VideoFrame's drop).                                            *)
(***************************************************************************)
EXTENDS Integers, Sequences, FiniteSets, TLC

\* max_frames_to_discard
MaxDiscard == 6

\* Bound: the number of video frames the receiver hands out in a run.
MaxFrames == 9

\* Names of the sources a finder snapshot can list.
SourceNames == {"cam1", "cam2"}

\* Option::None for a VideoFrame / a frame identity.
NoFrame == 0

\* Option::None for a source.
NoSource == "none"

\* The snapshots get_current_sources can return: ordered, without repeats.
SourceLists ==
    {<<>>} \cup {<<a>> : a \in SourceNames}
           \cup {<<a, b>> : <<a, b>> \in {p \in SourceNames \X SourceNames : p[1] # p[2]}}

VARIABLES
    pc,                  \* position of the program
    sources,             \* setup_ndi_receiver: the snapshot `sources`
    source,              \* setup_ndi_receiver: the selected `source`
    connected,           \* the source the receiver was connected to
    result,              \* the outcome of the last receive_capture call
    video,               \* the frame bound to `video` (match arm / line 155)
    latest_video_frame,  \* receive_ndi_frames: `latest_video_frame`
    frame_count,         \* receive_ndi_frames: `frame_count`
    data,                \* the outcome of video.lock_data()
    image_handle,        \* NDIReceiver.image_handle is Some
    images,              \* number of image assets added by receive_ndi_frames
    imageData,           \* frame whose pixels the NDI image asset holds
    sprite_texture,      \* the sprite's texture handle
    sprite_size,         \* frame whose size is the sprite's custom_size
    nextId,              \* arrival number of the next video frame
    releases,            \* releases[f]: releases issued for frame f
    tickBase,            \* nextId when the current tick started
    exit,                \* how the drain loop of the current tick ended
    delivered,           \* frame handed to the consumer in the current tick
    nDelivered,          \* number of frames handed over in the current tick
    prevDelivered,       \* last frame handed over in an earlier tick
    readAfterRelease,    \* a released buffer has been read
    instance,            \* setup_ndi_receiver: the runtime handle `instance`
    finder,              \* setup_ndi_receiver: the handle `finder`
    receiver,            \* the handle `receiver` (NDIReceiver.receiver)
    captured,            \* receive_capture has been called on the receiver
    cancel,              \* the host has asked the discovery to stop
    bpc,                 \* build.rs: position of the build script
    target_os,           \* build.rs: cfg(target_os)
    dynamic_link,        \* build.rs: cfg!(feature = "dynamic-link")
    runtimeVar,          \* build.rs: state of env var NDI_RUNTIME_DIR_V3
    runtimeExists,       \* build.rs: the path NDI_RUNTIME_DIR_V3 names exists
    libExists,           \* build.rs: $CARGO_MANIFEST_DIR/lib exists
    source_dir,          \* build.rs: main's `source_dir`
    copied,              \* build.rs: the files copied to the deps folder
    link_lib             \* build.rs: the cargo:rustc-link-lib directive printed

setupVars == <<sources, source, connected>>
loopVars  == <<result, video, latest_video_frame, frame_count, data>>
imageVars == <<image_handle, images, imageData, sprite_texture, sprite_size>>
frameVars == <<nextId, releases>>
tickVars  == <<tickBase, exit, delivered, nDelivered, prevDelivered>>
handleVars == <<instance, finder, receiver>>
hostVars  == <<captured, cancel>>
buildInputs == <<target_os, dynamic_link, runtimeVar, runtimeExists, libExists>>
buildVars == <<bpc, buildInputs, source_dir, copied, link_lib>>
appVars == <<pc, setupVars, loopVars, imageVars, frameVars, tickVars, readAfterRelease,
             handleVars, captured, cancel>>
vars == <<pc, setupVars, loopVars, imageVars, frameVars, tickVars, readAfterRelease,
          handleVars, hostVars, buildVars>>

Frames == 1 .. MaxFrames

\* The frames obtained from the receiver so far.
Obtained == 1 .. (nextId - 1)

\* The frames obtained and not yet released.
Unreleased == {f \in Obtained : releases[f] = 0}

\* The frames obtained in the current tick.
TickFrames == tickBase .. (nextId - 1)

\* Number of video frames obtained in the current tick.
Got == nextId - tickBase

RECURSIVE SumReleases(_, _)
SumReleases(lo, hi) ==
    IF lo > hi THEN 0 ELSE releases[lo] + SumReleases(lo + 1, hi)

\* Number of releases issued in the current tick.
TickReleases == SumReleases(tickBase, nextId - 1)

Min(a, b) == IF a < b THEN a ELSE b
Max(a, b) == IF a > b THEN a ELSE b

AppInit ==
    /\ pc = "load"
    /\ sources = <<>>
    /\ source = NoSource
    /\ connected = NoSource
    /\ result = "-"
    /\ video = NoFrame
    /\ latest_video_frame = NoFrame
    /\ frame_count = 0
    /\ data = "-"
    /\ image_handle = FALSE
    /\ images = 0
    /\ imageData = NoFrame
    /\ sprite_texture = "none"
    /\ sprite_size = NoFrame
    /\ nextId = 1
    /\ releases = [f \in Frames |-> 0]
    /\ tickBase = 1
    /\ exit = "-"
    /\ delivered = NoFrame
    /\ nDelivered = 0
    /\ prevDelivered = NoFrame
    /\ readAfterRelease = FALSE
    /\ instance = "none"
    /\ finder = "none"
    /\ receiver = "none"
    /\ captured = FALSE
    /\ cancel = FALSE

\* The build script is not part of a run of the example.
BuildOff ==
    /\ bpc = "off"
    /\ target_os = "linux"
    /\ dynamic_link = FALSE
    /\ runtimeVar = "unset"
    /\ runtimeExists = FALSE
    /\ libExists = FALSE
    /\ source_dir = "-"
    /\ copied = {}
    /\ link_lib = "-"

Init == AppInit /\ BuildOff

----------------------------------------------------------------------------
(* setup_ndi_receiver *)

\* Drop of a finder or receiver handle: the native object is destroyed.
DropHandle(h) == IF h = "live" THEN "dropped" ELSE h

\* Drop of the runtime handle returned by ndi_sdk::load(): the handle is the
\* single-owner token of the native runtime, and dropping it shuts the
\* runtime down.
DropRuntime(h) == IF h = "live" THEN "dropped" ELSE h

\* ndi_sdk::load().expect(..)
Load ==
    /\ pc = "load"
    /\ \E ok \in BOOLEAN :
         /\ pc' = IF ok THEN "create_finder" ELSE "panicked"
         /\ instance' = IF ok THEN "live" ELSE instance
    /\ UNCHANGED <<finder, receiver, hostVars, buildVars>>
    /\ UNCHANGED <<setupVars, loopVars, imageVars, frameVars, tickVars, readAfterRelease>>

\* instance.create_find_instance(true).expect(..)
CreateFinder ==
    /\ pc = "create_finder"
    /\ \E ok \in BOOLEAN :
         /\ pc' = IF ok THEN "wait" ELSE "panicked"
         /\ finder' = IF ok THEN "live" ELSE finder
         \* the panic unwinds setup_ndi_receiver: `instance` is dropped
         /\ instance' = IF ok THEN instance ELSE DropRuntime(instance)
    /\ UNCHANGED <<receiver, hostVars, buildVars>>
    /\ UNCHANGED <<setupVars, loopVars, imageVars, frameVars, tickVars, readAfterRelease>>

\* finder.wait_for_sources(1000): returns after at most the timeout.
WaitForSources ==
    /\ pc = "wait"
    /\ pc' = "query"
    /\ UNCHANGED <<setupVars, loopVars, imageVars, frameVars, tickVars, readAfterRelease>>
    /\ UNCHANGED <<handleVars, hostVars, buildVars>>

\* let sources = finder.get_current_sources();
GetCurrentSources ==
    /\ pc = "query"
    /\ \E s \in SourceLists : sources' = s
    /\ pc' = "check"
    /\ UNCHANGED <<source, connected, loopVars, imageVars, frameVars, tickVars, readAfterRelease>>
    /\ UNCHANGED <<handleVars, hostVars, buildVars>>

\* Mutant of FirstSource: the last source of the snapshot is taken.
FirstSource_Last(s) == s[Len(s)]

\* sources[0]
FirstSource(s) == s[1]

\* if !sources.is_empty() { break sources[0].clone(); }
SelectSource ==
    /\ pc = "check"
    /\ IF sources # <<>>
         THEN /\ source' = FirstSource(sources)
              /\ pc' = "create_receiver"
              \* the block of `finder` ends (line 52): it is dropped
              /\ finder' = DropHandle(finder)
         ELSE /\ source' = source
              /\ pc' = "wait"
              /\ finder' = finder
    /\ UNCHANGED <<instance, receiver, hostVars, buildVars>>
    /\ UNCHANGED <<sources, connected, loopVars, imageVars, frameVars, tickVars, readAfterRelease>>

\* instance.create_receive_instance(..).expect(..)
CreateReceiver ==
    /\ pc = "create_receiver"
    /\ \E ok \in BOOLEAN :
         /\ pc' = IF ok THEN "connect" ELSE "panicked"
         /\ receiver' = IF ok THEN "live" ELSE receiver
         \* the panic unwinds setup_ndi_receiver: `instance` is dropped
         /\ instance' = IF ok THEN instance ELSE DropRuntime(instance)
    /\ UNCHANGED <<finder, hostVars, buildVars>>
    /\ UNCHANGED <<setupVars, loopVars, imageVars, frameVars, tickVars, readAfterRelease>>

\* Mutant of Connect: the receiver is returned without being connected.
Connect_Skipped ==
    /\ pc = "connect"
    /\ pc' = "startup"
    /\ instance' = DropRuntime(instance)
    /\ UNCHANGED <<setupVars, finder, receiver, hostVars, buildVars>>
    /\ UNCHANGED <<loopVars, imageVars, frameVars, tickVars, readAfterRelease>>

\* receiver.connect(Some(&source)); NDIReceiver { receiver, image_handle: None }
\* The function returns the receiver; its local `instance` goes out of scope.
Connect ==
    /\ pc = "connect"
    /\ connected' = source
    /\ pc' = "startup"
    /\ instance' = DropRuntime(instance)
    /\ UNCHANGED <<finder, receiver, hostVars, buildVars>>
    /\ UNCHANGED <<sources, source, loopVars, imageVars, frameVars, tickVars, readAfterRelease>>

----------------------------------------------------------------------------
(* setup_graphics *)

SetupGraphics ==
    /\ pc = "startup"
    /\ sprite_texture' = "placeholder"
    /\ pc' = "idle"
    /\ UNCHANGED <<setupVars, loopVars, image_handle, images, imageData, sprite_size,
                   frameVars, tickVars, readAfterRelease>>
    /\ UNCHANGED <<handleVars, hostVars, buildVars>>

----------------------------------------------------------------------------
(* receive_ndi_frames *)

\* VideoFrame's drop: the buffer of frame f is released (nothing for None).
DropFrame(f, rel) ==
    IF f = NoFrame THEN rel ELSE [rel EXCEPT ![f] = @ + 1]

\* Mutant of OverLimit: the comparison is >= instead of >.
OverLimit_AtLimit(n) == n >= MaxDiscard

\* Mutant of OverLimit: the comparison is off by one the other way.
OverLimit_Late(n) == n > MaxDiscard + 1

\* if frame_count > max_frames_to_discard
OverLimit(n) == n > MaxDiscard

\* A new tick: let mut latest_video_frame = None; let mut frame_count = 0;
TickStart ==
    /\ pc = "idle"
    /\ latest_video_frame' = NoFrame
    /\ frame_count' = 0
    /\ result' = "-"
    /\ video' = NoFrame
    /\ data' = "-"
    /\ tickBase' = nextId
    /\ exit' = "-"
    /\ prevDelivered' = IF delivered # NoFrame THEN delivered ELSE prevDelivered
    /\ delivered' = NoFrame
    /\ nDelivered' = 0
    /\ pc' = "capture"
    /\ UNCHANGED <<setupVars, imageVars, frameVars, readAfterRelease>>
    /\ UNCHANGED <<handleVars, hostVars, buildVars>>

\* ndi_receiver.receiver.receive_capture(true, false, false, 0)
ReceiveCapture ==
    /\ pc = "capture"
    /\ \E o \in {"Video", "None", "Other", "Err"} :
         /\ o = "Video" => nextId <= MaxFrames
         /\ result' = o
         /\ IF o = "Video"
              THEN /\ video' = nextId
                   /\ nextId' = nextId + 1
              ELSE /\ video' = NoFrame
                   /\ nextId' = nextId
    /\ pc' = "match"
    /\ captured' = TRUE
    /\ UNCHANGED <<setupVars, latest_video_frame, frame_count, data, imageVars,
                   releases, tickVars, readAfterRelease, handleVars, cancel,
                   buildVars>>

\* Mutant of MatchVideo: the replaced frame is kept alive instead of dropped.
MatchVideo_KeepPrev ==
    /\ pc = "match"
    /\ result = "Video"
    /\ frame_count' = frame_count + 1
    /\ latest_video_frame' = video
    /\ IF OverLimit(frame_count + 1)
         THEN exit' = "limit" /\ pc' = "process"
         ELSE exit' = exit /\ pc' = "capture"
    /\ video' = NoFrame
    /\ UNCHANGED <<setupVars, result, data, imageVars, frameVars, tickBase, delivered,
                   nDelivered, prevDelivered, readAfterRelease>>
    /\ UNCHANGED <<handleVars, hostVars, buildVars>>

\* Mutant of MatchVideo: at the limit the pending frame is kept and the new
\* frame is dropped.
MatchVideo_KeepOld ==
    /\ pc = "match"
    /\ result = "Video"
    /\ frame_count' = frame_count + 1
    /\ IF OverLimit(frame_count + 1)
         THEN /\ latest_video_frame' = latest_video_frame
              /\ releases' = DropFrame(video, releases)
              /\ exit' = "limit"
              /\ pc' = "process"
         ELSE /\ latest_video_frame' = video
              /\ releases' = DropFrame(latest_video_frame, releases)
              /\ exit' = exit
              /\ pc' = "capture"
    /\ video' = NoFrame
    /\ UNCHANGED <<setupVars, result, data, imageVars, nextId, tickBase, delivered,
                   nDelivered, prevDelivered, readAfterRelease>>
    /\ UNCHANGED <<handleVars, hostVars, buildVars>>

\* Ok(ReceiveCaptureResult::Video(video)) => { .. }
MatchVideo ==
    /\ pc = "match"
    /\ result = "Video"
    /\ frame_count' = frame_count + 1
    /\ IF OverLimit(frame_count + 1)
         THEN \* latest_video_frame = Some(video); break;  (the old value is dropped)
              /\ latest_video_frame' = video
              /\ releases' = DropFrame(latest_video_frame, releases)
              /\ exit' = "limit"
              /\ pc' = "process"
         ELSE \* if let Some(prev_frame) = latest_video_frame.replace(video) { drop(prev_frame) }
              /\ latest_video_frame' = video
              /\ releases' = DropFrame(latest_video_frame, releases)
              /\ exit' = exit
              /\ pc' = "capture"
    /\ video' = NoFrame
    /\ UNCHANGED <<setupVars, result, data, imageVars, nextId, tickBase, delivered,
                   nDelivered, prevDelivered, readAfterRelease>>
    /\ UNCHANGED <<handleVars, hostVars, buildVars>>

\* Mutant of MatchNone: None is handled like an error (the pending frame is
\* dropped and the tick returns).
MatchNone_DropPending ==
    /\ pc = "match"
    /\ result = "None"
    /\ releases' = DropFrame(latest_video_frame, releases)
    /\ latest_video_frame' = NoFrame
    /\ exit' = "none"
    /\ pc' = "idle"
    /\ UNCHANGED <<setupVars, result, video, frame_count, data, imageVars, nextId,
                   tickBase, delivered, nDelivered, prevDelivered, readAfterRelease>>
    /\ UNCHANGED <<handleVars, hostVars, buildVars>>

\* Ok(ReceiveCaptureResult::None) => { break; }
MatchNone ==
    /\ pc = "match"
    /\ result = "None"
    /\ exit' = "none"
    /\ pc' = "process"
    /\ UNCHANGED <<setupVars, loopVars, imageVars, frameVars, tickBase, delivered,
                   nDelivered, prevDelivered, readAfterRelease>>
    /\ UNCHANGED <<handleVars, hostVars, buildVars>>

\* Ok(_) => {}
MatchOther ==
    /\ pc = "match"
    /\ result = "Other"
    /\ pc' = "capture"
    /\ UNCHANGED <<setupVars, loopVars, imageVars, frameVars, tickVars, readAfterRelease>>
    /\ UNCHANGED <<handleVars, hostVars, buildVars>>

\* Mutant of MatchErr: the arm breaks out of the loop instead of returning.
MatchErr_Break ==
    /\ pc = "match"
    /\ result = "Err"
    /\ exit' = "err"
    /\ pc' = "process"
    /\ UNCHANGED <<setupVars, loopVars, imageVars, frameVars, tickBase, delivered,
                   nDelivered, prevDelivered, readAfterRelease>>
    /\ UNCHANGED <<handleVars, hostVars, buildVars>>

\* Err(e) => { println!(..); return; }  (latest_video_frame is dropped on return)
MatchErr ==
    /\ pc = "match"
    /\ result = "Err"
    /\ releases' = DropFrame(latest_video_frame, releases)
    /\ latest_video_frame' = NoFrame
    /\ exit' = "err"
    /\ pc' = "idle"
    /\ UNCHANGED <<setupVars, result, video, frame_count, data, imageVars, nextId,
                   tickBase, delivered, nDelivered, prevDelivered, readAfterRelease>>
    /\ UNCHANGED <<handleVars, hostVars, buildVars>>

\* if let Some(video) = latest_video_frame { .. }
ProcessLatest ==
    /\ pc = "process"
    /\ IF latest_video_frame = NoFrame
         THEN /\ pc' = "idle"
              /\ UNCHANGED <<video, latest_video_frame, delivered, nDelivered>>
         ELSE /\ video' = latest_video_frame
              /\ latest_video_frame' = NoFrame
              /\ delivered' = latest_video_frame
              /\ nDelivered' = nDelivered + 1
              /\ pc' = "lock"
    /\ UNCHANGED <<setupVars, result, frame_count, data, imageVars, frameVars,
                   tickBase, exit, prevDelivered, readAfterRelease>>
    /\ UNCHANGED <<handleVars, hostVars, buildVars>>

\* Mutant of LockData: the frame is released as soon as its data is locked.
LockData_Release ==
    /\ pc = "lock"
    /\ \E d \in {"some", "none"} :
         /\ data' = d
         /\ pc' = IF d = "some" THEN "copy" ELSE "drop"
    /\ releases' = DropFrame(video, releases)
    /\ UNCHANGED <<setupVars, result, video, latest_video_frame, frame_count,
                   imageVars, nextId, tickVars, readAfterRelease>>
    /\ UNCHANGED <<handleVars, hostVars, buildVars>>

\* if let Some(data) = video.lock_data() { .. } else { println!(..) }
LockData ==
    /\ pc = "lock"
    /\ \E d \in {"some", "none"} :
         /\ data' = d
         /\ pc' = IF d = "some" THEN "copy" ELSE "drop"
    /\ UNCHANGED <<setupVars, result, video, latest_video_frame, frame_count,
                   imageVars, frameVars, tickVars, readAfterRelease>>
    /\ UNCHANGED <<handleVars, hostVars, buildVars>>

\* Mutant of CopyToImage: a new image asset is created for every frame, as if
\* image_handle were never Some.
CopyToImage_AlwaysNew ==
    /\ pc = "copy"
    /\ imageData' = video
    /\ readAfterRelease' = (readAfterRelease \/ releases[video] > 0)
    /\ images' = images + 1
    /\ image_handle' = TRUE
    /\ \E q \in BOOLEAN :
         IF q THEN /\ sprite_texture' = "ndi"
                   /\ sprite_size' = video
              ELSE UNCHANGED <<sprite_texture, sprite_size>>
    /\ pc' = "drop"
    /\ UNCHANGED <<setupVars, loopVars, frameVars, tickVars>>
    /\ UNCHANGED <<handleVars, hostVars, buildVars>>

\* The body of `if let Some(data) = video.lock_data()`: data.to_vec() reads the
\* frame's buffer into the image asset.
CopyToImage ==
    /\ pc = "copy"
    /\ IF image_handle
         THEN \* if let Some(image) = images.get_mut(image_handle)
              \E found \in BOOLEAN :
                 IF found
                   THEN /\ imageData' = video
                        /\ readAfterRelease' = (readAfterRelease \/ releases[video] > 0)
                        /\ \E q \in BOOLEAN :
                             sprite_size' = IF q THEN video ELSE sprite_size
                        /\ UNCHANGED <<image_handle, images, sprite_texture>>
                   ELSE UNCHANGED <<imageVars, readAfterRelease>>
         ELSE \* the first frame: images.add(image); image_handle = Some(..)
              /\ imageData' = video
              /\ readAfterRelease' = (readAfterRelease \/ releases[video] > 0)
              /\ images' = images + 1
              /\ image_handle' = TRUE
              /\ \E q \in BOOLEAN :
                   IF q THEN /\ sprite_texture' = "ndi"
                             /\ sprite_size' = video
                        ELSE UNCHANGED <<sprite_texture, sprite_size>>
    /\ pc' = "drop"
    /\ UNCHANGED <<setupVars, loopVars, frameVars, tickVars>>
    /\ UNCHANGED <<handleVars, hostVars, buildVars>>

\* Mutant of DropVideo: the tick returns without releasing the delivered frame.
DropVideo_Skip ==
    /\ pc = "drop"
    /\ video' = NoFrame
    /\ pc' = "idle"
    /\ UNCHANGED <<setupVars, result, latest_video_frame, frame_count, data,
                   imageVars, frameVars, tickVars, readAfterRelease>>
    /\ UNCHANGED <<handleVars, hostVars, buildVars>>

\* drop(video);
DropVideo ==
    /\ pc = "drop"
    /\ releases' = DropFrame(video, releases)
    /\ video' = NoFrame
    /\ pc' = "idle"
    /\ UNCHANGED <<setupVars, result, latest_video_frame, frame_count, data,
                   imageVars, nextId, tickVars, readAfterRelease>>
    /\ UNCHANGED <<handleVars, hostVars, buildVars>>

----------------------------------------------------------------------------
(* The host *)

\* The host raises its cancellation signal.  No statement of the program
\* reads it.
RequestCancel ==
    /\ pc # "panicked"
    /\ ~cancel
    /\ cancel' = TRUE
    /\ UNCHANGED <<pc, setupVars, loopVars, imageVars, frameVars, tickVars,
                   readAfterRelease, handleVars, captured, buildVars>>

----------------------------------------------------------------------------

Next ==
    \/ Load
    \/ CreateFinder
    \/ WaitForSources
    \/ GetCurrentSources
    \/ SelectSource
    \/ CreateReceiver
    \/ Connect
    \/ SetupGraphics
    \/ TickStart
    \/ ReceiveCapture
    \/ MatchVideo
    \/ MatchNone
    \/ MatchOther
    \/ MatchErr
    \/ ProcessLatest
    \/ LockData
    \/ CopyToImage
    \/ DropVideo
    \/ RequestCancel

Spec == Init /\ [][Next]_vars

\* The program keeps running: a step that can be taken is eventually taken.
FairSpec == Spec /\ WF_vars(Next)

----------------------------------------------------------------------------
(* build.rs *)

\* env::var yields Ok only for a variable that is set and valid Unicode.
EnvStates == {"unset", "unicode", "not_unicode"}

\* Mutant of choose_source_dir: the local lib folder is tried first.
choose_source_dir_LibFirst(rv, re, le) ==
    IF le THEN "lib"
    ELSE IF rv = "unicode" /\ re THEN "runtime"
    ELSE "None"

\* fn choose_source_dir() -> Option<String>: "runtime" is Some(the value of
\* NDI_RUNTIME_DIR_V3), "lib" is Some($CARGO_MANIFEST_DIR/lib).
choose_source_dir(rv, re, le) ==
    IF rv = "unicode" /\ re THEN "runtime"
    ELSE IF le THEN "lib"
    ELSE "None"

\* The files main places in the deps folder, in order (on linux the copy of
\* libndi.so.3, then the symlink libndi.so).
LibFiles(os) ==
    IF os = "windows"
      THEN <<"Processing.NDI.Lib.x64.lib", "Processing.NDI.Lib.x64.dll">>
      ELSE <<"libndi.so.3", "libndi.so">>

\* println!("cargo:rustc-link-lib=..")
LinkName(os) == IF os = "windows" THEN "Processing.NDI.Lib.x64" ELSE "ndi"

\* The build script starts with any environment and file system.
BuildInit ==
    /\ AppInit
    /\ bpc = "start"
    /\ target_os \in {"linux", "windows"}
    /\ dynamic_link \in BOOLEAN
    /\ runtimeVar \in EnvStates
    /\ runtimeExists \in BOOLEAN
    /\ libExists \in BOOLEAN
    /\ source_dir = "-"
    /\ copied = {}
    /\ link_lib = "-"

\* let source_dir = choose_source_dir();
ChooseSourceDir ==
    /\ bpc = "start"
    /\ source_dir' = choose_source_dir(runtimeVar, runtimeExists, libExists)
    /\ bpc' = "chosen"
    /\ UNCHANGED <<appVars, buildInputs, copied, link_lib>>

\* The rest of main: the copies (each may fail, which panics) and the link
\* directive.
BuildMain ==
    /\ bpc = "chosen"
    /\ IF source_dir = "None"
         THEN /\ copied' = copied
              /\ bpc' = "done"
         ELSE \E n \in 0 .. Len(LibFiles(target_os)) :
                 /\ copied' = {LibFiles(target_os)[i] : i \in 1 .. n}
                 /\ bpc' = IF n = Len(LibFiles(target_os)) THEN "done" ELSE "panicked"
    /\ link_lib' = IF bpc' = "done" /\ ~dynamic_link THEN LinkName(target_os) ELSE "none"
    /\ UNCHANGED <<appVars, buildInputs, source_dir>>

BuildNext ==
    \/ ChooseSourceDir
    \/ BuildMain

BuildSpec == BuildInit /\ [][BuildNext]_vars

----------------------------------------------------------------------------
(* Properties *)

\* The drain loop of the current tick has ended and line 155 is next.
LoopDone == pc = "process"

\* The tick has handed its frame to the consumer (or has returned).
AfterLoop == pc \in {"lock", "copy", "drop", "idle"}

\* C1: every video frame obtained from receive_capture is released exactly
\* once: no frame is released twice or before it is obtained, and when a tick
\* has returned (on any exit path) the releases of the tick equal the frames
\* it obtained and no frame is left unreleased.
C1_ReleasedExactlyOnce ==
    /\ \A f \in Frames : releases[f] <= 1
    /\ \A f \in Frames \ Obtained : releases[f] = 0
    /\ pc = "idle" => /\ Unreleased = {}
                      /\ TickReleases = Got

\* C1 witness: a tick that obtained several frames returned through the
\* capture error path.
C1_Witness == pc = "idle" /\ exit = "err" /\ Got >= 2

\* C2 (as claimed): at every instant at most one obtained frame is unreleased.
C2_AtMostOneUnreleased == Cardinality(Unreleased) <= 1

\* C2 (amended): at most two obtained frames are unreleased at any instant,
\* and two only between the return of a capture call with a new frame and the
\* release of the pending frame it replaces; otherwise at most one.
C2_AtMostTwoUnreleased ==
    /\ Cardinality(Unreleased) <= 2
    /\ Cardinality(Unreleased) = 2 =>
          /\ pc = "match"
          /\ result = "Video"
          /\ Unreleased = {latest_video_frame, video}

\* C2 witness: a new frame has been returned while a pending frame is held.
C2_Witness == pc = "match" /\ Cardinality(Unreleased) = 2

\* The numbers k of frames the producer can have had available in this tick:
\* exactly the frames obtained when the loop ended on None, at least the frames
\* obtained when the loop ended at the discard limit.
ProducerK == IF exit = "none" THEN {Got} ELSE Got .. (MaxFrames + 1)

\* Releases owed to the frame the loop kept for delivery.
Owed == IF latest_video_frame # NoFrame THEN 1 ELSE 0

\* C3 (as claimed): with k frames available before None, the loop releases
\* exactly min(k, maxDiscard) frames and exactly one release is owed.
C3_DiscardsMinK ==
    (LoopDone /\ exit \in {"none", "limit"}) =>
        \A k \in ProducerK : /\ TickReleases = Min(k, MaxDiscard)
                             /\ Owed = 1

\* C3 (amended): with k frames available before None, the loop releases
\* exactly min(max(k - 1, 0), maxDiscard) frames, and one release is owed to
\* the delivered frame when k >= 1, none when k = 0.
C3_DiscardsAllButLast ==
    (LoopDone /\ exit \in {"none", "limit"}) =>
        \A k \in ProducerK : /\ TickReleases = Min(Max(k - 1, 0), MaxDiscard)
                             /\ Owed = IF k >= 1 THEN 1 ELSE 0

\* C3 witness: the loop ended on None after three frames.
C3_Witness == LoopDone /\ exit = "none" /\ Got = 3

\* C4 (as claimed): no tick obtains more than maxDiscard video frames.
C4_AtMostMaxDiscard == Got <= MaxDiscard

\* C4 (amended): the loop stops as soon as the count of frames exceeds
\* maxDiscard, i.e. on frame maxDiscard + 1, which is the frame delivered; no
\* further frame is obtained, so no tick obtains more than maxDiscard + 1.
C4_StopsAfterLimit ==
    /\ Got <= MaxDiscard + 1
    /\ pc = "capture" => Got <= MaxDiscard
    /\ exit = "limit" =>
          /\ Got = MaxDiscard + 1
          /\ pc \notin {"capture", "match"}
          /\ LoopDone => latest_video_frame = nextId - 1
          /\ AfterLoop => delivered = nextId - 1

\* C4 witness: a tick stopped at the limit and handed its frame over.
C4_Witness == pc = "lock" /\ exit = "limit"

\* The drain loop of the current tick is running.
InDrainLoop == pc \in {"capture", "match"}

\* C5: the drain loop of every tick terminates, whatever receive_capture
\* returns (the Ok(_) arm included).
C5_DrainLoopTerminates == InDrainLoop ~> ~InDrainLoop

\* C6: a capture error aborts the tick: the tick returns at once, no frame is
\* delivered, the pending frame is released before the return, and neither
\* the loop nor the abort modifies the image asset or the sprite.
C6_ErrorAbortsTick ==
    /\ [](exit = "err" => /\ pc = "idle"
                          /\ delivered = NoFrame
                          /\ nDelivered = 0
                          /\ latest_video_frame = NoFrame
                          /\ Unreleased = {}
                          /\ TickReleases = Got)
    /\ [][(InDrainLoop' \/ exit' = "err") => UNCHANGED imageVars]_vars

\* C6 witness: a tick that held a pending frame was aborted by an error
\* while an image asset exists.
C6_Witness == exit = "err" /\ pc = "idle" /\ Got >= 1 /\ image_handle

\* C7: None stops the drain loop at once; the pending frame, if set, is
\* exactly the frame delivered; with no frame obtained nothing is delivered
\* and nothing is released.
C7_NoneStopsLoop ==
    exit = "none" =>
        /\ ~InDrainLoop
        /\ Got = 0 => /\ delivered = NoFrame
                      /\ nDelivered = 0
                      /\ latest_video_frame = NoFrame
                      /\ TickReleases = 0
        /\ (Got > 0 /\ LoopDone) => /\ latest_video_frame = nextId - 1
                                    /\ TickReleases = Got - 1
        /\ (Got > 0 /\ AfterLoop) => /\ delivered = nextId - 1
                                     /\ nDelivered = 1

\* C7 witness: None ended a loop that holds a pending frame, now delivered.
C7_Witness == exit = "none" /\ pc = "lock" /\ Got >= 2

\* C8: the frame delivered by a tick is the frame most recently obtained in
\* that tick, at most one frame is delivered per tick, and it arrived after
\* every frame delivered by an earlier tick (arrival order, no repeats).
C8_DeliversNewestInOrder ==
    /\ nDelivered <= 1
    /\ (nDelivered = 1) <=> (delivered # NoFrame)
    /\ delivered # NoFrame => /\ delivered = nextId - 1
                              /\ delivered \in TickFrames
                              /\ delivered > prevDelivered

\* C8 witness: a later tick delivers the newest of several frames.
C8_Witness == delivered # NoFrame /\ prevDelivered # NoFrame /\ Got >= 2

\* C9: the buffer of a delivered frame is never read after its release: while
\* the data is locked and copied the frame is unreleased, and once the tick has
\* returned the delivered frame has been released exactly once.
C9_NoReadAfterRelease ==
    /\ ~readAfterRelease
    /\ pc \in {"lock", "copy", "drop"} => /\ video = delivered
                                          /\ releases[video] = 0
    /\ (pc = "idle" /\ delivered # NoFrame) => releases[delivered] = 1

\* C9 witness: a tick whose lock_data yielded no data has returned, after an
\* earlier tick copied a frame into the image.
C9_Witness ==
    pc = "idle" /\ delivered # NoFrame /\ data = "none" /\ imageData # NoFrame

\* The discovery loop of setup_ndi_receiver is running.
InDiscovery == pc \in {"wait", "query", "check"}

\* From some point on every snapshot taken is non-empty.
SnapshotsNonEmpty == <>[](pc = "check" => sources # <<>>)

\* The loop repeats wait_for_sources then get_current_sources, is left only
\* on a non-empty snapshot, and the source selected (and connected to) is the
\* first one of that snapshot.
DiscoverySafety ==
    /\ [][/\ pc' = "query" => pc \in {"wait", "query"}
          /\ pc' = "check" => pc \in {"query", "check"}
          /\ (InDiscovery /\ ~InDiscovery') =>
                /\ pc = "check"
                /\ sources # <<>>
                /\ pc' = "create_receiver"
                /\ sources' = sources]_vars
    /\ [](pc \in {"create_receiver", "connect", "startup"} =>
             /\ sources # <<>>
             /\ source = sources[1])
    /\ [](connected # NoSource => /\ connected = source
                                  /\ source = sources[1])

\* C10 (as claimed): if from some point on every snapshot is non-empty, the
\* loop exits and connect is called with the selected source.
C10_DiscoveryAlwaysConnects ==
    /\ DiscoverySafety
    /\ SnapshotsNonEmpty => (InDiscovery ~> (connected # NoSource /\ connected = source))

\* C10 (amended): under the same condition the loop exits with the first
\* source of its last snapshot, and connect is then called with that source
\* unless create_receive_instance fails, in which case setup panics.
C10_DiscoveryThenConnect ==
    /\ DiscoverySafety
    /\ SnapshotsNonEmpty => (InDiscovery ~> pc = "create_receiver")
    /\ (pc = "create_receiver") ~>
           (pc = "panicked" \/ (connected # NoSource /\ connected = source))

\* C10 witness: connect was called with the first of two sources.
C10_Witness == pc = "startup" /\ connected = "cam2" /\ Len(sources) = 2 /\ sources[1] = "cam2"

\* C11: no capture call is issued before connect has been called with the
\* selected source: whenever receive_capture is about to be called or has been
\* called, the runtime was loaded, the finder and the receiver were created, a
\* source was selected and connect was called with it.
C11_ConnectBeforeCapture ==
    (captured \/ InDrainLoop) =>
        /\ instance # "none"
        /\ finder # "none"
        /\ receiver # "none"
        /\ source # NoSource
        /\ connected # NoSource
        /\ connected = source

\* C11 witness: the first capture call of the first tick has been issued.
C11_Witness == captured /\ pc = "match" /\ nextId = 1 /\ connected = "cam1"

\* C12: no handle outlives the runtime handle: while the finder or the
\* receiver is live, and at every capture call, the runtime handle is live.
C12_HandlesWithinRuntime ==
    /\ finder = "live" => instance = "live"
    /\ receiver = "live" => instance = "live"
    /\ InDrainLoop => instance = "live"

\* C13: the discovery loop checks a host-provided cancellation signal
\* between successive wait_for_sources calls: once the signal is raised the
\* loop exits, even if no source is ever discovered.
C13_CancelStopsDiscovery == (cancel /\ InDiscovery) ~> ~InDiscovery

\* C14: image_handle changes only from None to Some, at most once, in the
\* first tick that delivers a frame with readable data; an image asset is
\* created only while image_handle is None; a tick that delivers no frame
\* leaves image_handle, the image assets and the sprite unchanged.
C14_ImageHandleSetOnce ==
    /\ [](/\ images <= 1
          /\ image_handle <=> (images = 1)
          /\ image_handle <=> (imageData # NoFrame)
          /\ (pc = "drop" /\ data = "some") => image_handle)
    /\ [][/\ image_handle => image_handle'
          /\ (image_handle' # image_handle) =>
                /\ pc = "copy"
                /\ data = "some"
                /\ delivered # NoFrame
          /\ (images' # images) =>
                /\ ~image_handle
                /\ image_handle'
                /\ images' = images + 1
          /\ (delivered = NoFrame /\ pc # "startup") => UNCHANGED imageVars]_vars

\* C14 witness: a later tick has copied its frame into the existing image.
C14_Witness ==
    /\ pc = "drop"
    /\ data = "some"
    /\ images = 1
    /\ imageData = delivered
    /\ prevDelivered # NoFrame
    /\ sprite_size # NoFrame /\ sprite_size < delivered

\* choose_source_dir has returned.
Chosen == bpc \in {"chosen", "done", "panicked"}

====
